---- MODULE Spec2Model ----
(***************************************************************************)
(* Model of the DevEvent application's persistence core:                   *)
(*   - the MongoDB connection cache (src/lib/constants.ts, connectDB),     *)
(*   - the Booking pre-save hook     (src/database/booking.model.ts),      *)
(*   - the Event pre-save hook, generateSlug, normalizeDate and            *)
(*     normalizeTime                 (src/database/index.ts).              *)
(* Each component has its own specification (SpecConn, SpecBooking,        *)
(* SpecEvent, SpecSlug, SpecTime); the variables of the other components   *)
(* stay at their idle values.                                              *)
(***************************************************************************)
EXTENDS Integers, Sequences, FiniteSets

VARIABLES
  mongoUri,        \* process.env.MONGODB_URI is set (TRUE) or absent (FALSE)
  globalMongoose,  \* global.mongoose: NoCache (undefined) or a cache object
  cached,          \* the `cached` binding of the current module instance
  evals,           \* number of evaluations of the module body so far
  caches,          \* heap of MongooseCache objects: <<[conn, promise], ...>>
  attempts,        \* mongoose.connect(...).then(...).catch(...) chains created
  calls,           \* history of connectDB calls, with what each caller received
  events,          \* events collection (identities of the stored events)
  bookings,        \* bookings collection: document -> stored eventId
  bdocs,           \* in-memory Booking documents, the position and record of their save
  edoc,            \* in-memory Event document, the position and record of its save
  estore,          \* events collection: the document's stored fields, other events' slugs
  slugRun,         \* generateSlug applied to a title, once and twice
  timeRun          \* normalizeTime applied to an input

connVars  == <<mongoUri, globalMongoose, cached, evals, caches, attempts, calls>>
bookVars  == <<events, bookings, bdocs>>
eventVars == <<edoc, estore>>
pureVars  == <<slugRun, timeRun>>
vars      == <<connVars, bookVars, eventVars, pureVars>>

\* ------------------------------------------------------------------------
\* Idle values of each component (used by the other components' Init).
\* ------------------------------------------------------------------------
NoCache   == 0
NoConn    == 0
NoPromise == 0
NoEvent   == 0

ConnIdle ==
  /\ mongoUri = FALSE /\ globalMongoose = NoCache /\ cached = NoCache
  /\ evals = 0 /\ caches = <<>> /\ attempts = <<>> /\ calls = <<>>

\* ========================================================================
\* Connection cache: src/lib/constants.ts
\* ========================================================================
MaxCaches   == 2   \* MongooseCache objects that may be allocated
MaxEvals    == 2   \* evaluations of the module body (first import + reloads)
MaxAttempts == 3   \* mongoose.connect attempts explored
MaxCalls    == 4   \* connectDB calls explored

EmptyCache == [conn |-> NoConn, promise |-> NoPromise]

\* mongooseInstance.connection of the k-th mongoose.connect
Handle(k) == k

GlobalOrFresh_AlwaysFresh == Len(caches) + 1

\* global.mongoose || { conn: null, promise: null }
GlobalOrFresh ==
  IF globalMongoose # NoCache THEN globalMongoose ELSE Len(caches) + 1

\* Evaluation of the module body (first import, or re-evaluation on hot reload)
ModuleEval ==
  /\ evals < MaxEvals
  /\ GlobalOrFresh <= MaxCaches
  /\ evals' = evals + 1
  /\ cached' = GlobalOrFresh
  /\ caches' = IF GlobalOrFresh > Len(caches) THEN Append(caches, EmptyCache)
                                              ELSE caches
  /\ globalMongoose' = IF globalMongoose = NoCache THEN GlobalOrFresh
                                                   ELSE globalMongoose
  /\ UNCHANGED <<mongoUri, attempts, calls>>
  /\ UNCHANGED <<bookVars, eventVars, pureVars>>

\* The process configuration changes (process.env is read at every call)
SetEnv ==
  /\ mongoUri' = ~mongoUri
  /\ UNCHANGED <<globalMongoose, cached, evals, caches, attempts, calls>>
  /\ UNCHANGED <<bookVars, eventVars, pureVars>>

ConnectDBCase_NoSingleFlight(c, uri) ==
  IF c.conn # NoConn THEN "cached"
  ELSE IF ~uri THEN "configError"
  ELSE "connect"

ConnectDBCase_PendingFirst(c, uri) ==
  IF c.conn # NoConn THEN "cached"
  ELSE IF c.promise # NoPromise THEN "pending"
  ELSE IF ~uri THEN "configError"
  ELSE "connect"

\* The branch connectDB takes, in the order of its tests
ConnectDBCase(c, uri) ==
  IF c.conn # NoConn THEN "cached"
  ELSE IF ~uri THEN "configError"
  ELSE IF c.promise # NoPromise THEN "pending"
  ELSE "connect"

Pending == [st |-> "pending", v |-> 0]

\* What a caller awaiting chain a has received so far
ResultOf(a) ==
  CASE a.chain = "pending"   -> Pending
    [] a.chain = "fulfilled" -> [st |-> "ok", v |-> a.value]
    [] a.chain = "rejected"  -> [st |-> "error", v |-> a.value]

InFlight  == {k \in DOMAIN attempts : attempts[k].chain = "pending"}
Fulfilled == {k \in DOMAIN attempts : attempts[k].chain = "fulfilled"}
Rejected  == {k \in DOMAIN attempts : attempts[k].chain = "rejected"}
Connected == {k \in DOMAIN attempts : attempts[k].st = "resolved"}

\* One call of connectDB(), up to its return
ConnectDB ==
  /\ cached # NoCache
  /\ Len(calls) < MaxCalls
  /\ LET c    == caches[cached]
         case == ConnectDBCase(c, mongoUri)
         k    == Len(attempts) + 1
         new  == [cache |-> cached, st |-> "pending", chain |-> "pending",
                  value |-> 0]
     IN  /\ (case = "connect") => Len(attempts) < MaxAttempts
         /\ attempts' = IF case = "connect" THEN Append(attempts, new)
                                            ELSE attempts
         /\ caches' = IF case = "connect"
                        THEN [caches EXCEPT ![cached].promise = k]
                        ELSE caches
         /\ calls' = Append(calls,
              [uri       |-> mongoUri,
               inflight  |-> InFlight,
               fulfilled |-> Fulfilled,
               rejected  |-> Rejected,
               before    |-> c,
               after     |-> caches'[cached],
               started   |-> (case = "connect"),
               kind      |-> CASE case = "cached"      -> "conn"
                               [] case = "configError" -> "configError"
                               [] OTHER                -> "promise",
               val       |-> CASE case = "cached"      -> c.conn
                               [] case = "configError" -> 0
                               [] case = "pending"     -> c.promise
                               [] OTHER                -> k,
               result    |-> CASE case = "cached"      -> [st |-> "ok", v |-> c.conn]
                               [] case = "configError" -> [st |-> "configError", v |-> 0]
                               [] case = "pending"     -> ResultOf(attempts[c.promise])
                               [] OTHER                -> Pending])
  /\ UNCHANGED <<mongoUri, globalMongoose, cached, evals>>
  /\ UNCHANGED <<bookVars, eventVars, pureVars>>

\* The underlying mongoose.connect of attempt k establishes its connection
ConnectResolves(k) ==
  /\ attempts[k].st = "pending"
  /\ attempts' = [attempts EXCEPT ![k].st = "resolved"]
  /\ UNCHANGED <<mongoUri, globalMongoose, cached, evals, caches, calls>>
  /\ UNCHANGED <<bookVars, eventVars, pureVars>>

\* The underlying mongoose.connect of attempt k fails
ConnectRejects(k) ==
  /\ attempts[k].st = "pending"
  /\ attempts' = [attempts EXCEPT ![k].st = "rejected"]
  /\ UNCHANGED <<mongoUri, globalMongoose, cached, evals, caches, calls>>
  /\ UNCHANGED <<bookVars, eventVars, pureVars>>

\* Callers awaiting chain k are resumed with its outcome
Resume(k, outcome) ==
  [i \in DOMAIN calls |->
     IF calls[i].kind = "promise" /\ calls[i].val = k
       THEN [calls[i] EXCEPT !.result = outcome]
       ELSE calls[i]]

\* .then: cached.conn = mongooseInstance.connection
OnFulfilled(c, k) == [c EXCEPT !.conn = Handle(k)]

OnRejected_KeepPromise(c) == c

\* .catch: cached.promise = null
OnRejected(c) == [c EXCEPT !.promise = NoPromise]

\* The .then callback of attempt k runs
ThenHandler(k) ==
  /\ attempts[k].st = "resolved"
  /\ attempts[k].chain = "pending"
  /\ LET ci == attempts[k].cache
         c2 == OnFulfilled(caches[ci], k)
     IN  /\ caches' = [caches EXCEPT ![ci] = c2]
         /\ attempts' = [attempts EXCEPT ![k].chain = "fulfilled",
                                         ![k].value = c2.conn]
         /\ calls' = Resume(k, [st |-> "ok", v |-> c2.conn])
  /\ UNCHANGED <<mongoUri, globalMongoose, cached, evals>>
  /\ UNCHANGED <<bookVars, eventVars, pureVars>>

\* The .catch callback of attempt k runs and rethrows
CatchHandler(k) ==
  /\ attempts[k].st = "rejected"
  /\ attempts[k].chain = "pending"
  /\ LET ci == attempts[k].cache
     IN  /\ caches' = [caches EXCEPT ![ci] = OnRejected(caches[ci])]
         /\ attempts' = [attempts EXCEPT ![k].chain = "rejected",
                                         ![k].value = k]
         /\ calls' = Resume(k, [st |-> "error", v |-> k])
  /\ UNCHANGED <<mongoUri, globalMongoose, cached, evals>>
  /\ UNCHANGED <<bookVars, eventVars, pureVars>>

\* ------------------------------------------------------------------------
BookIdle  == events = {} /\ bookings = <<>> /\ bdocs = <<>>
EventIdle == edoc = [st |-> "none"] /\ estore = [mine |-> <<>>, others |-> {}]
PureIdle  == slugRun = [pc |-> "idle"] /\ timeRun = [pc |-> "idle"]

\* Before the module is first imported; the configuration is either way
InitConn ==
  /\ mongoUri \in BOOLEAN
  /\ globalMongoose = NoCache /\ cached = NoCache /\ evals = 0
  /\ caches = <<>> /\ attempts = <<>> /\ calls = <<>>
  /\ BookIdle /\ EventIdle /\ PureIdle

NextConn ==
  \/ ModuleEval
  \/ SetEnv
  \/ ConnectDB
  \/ \E k \in DOMAIN attempts : ConnectResolves(k)
  \/ \E k \in DOMAIN attempts : ConnectRejects(k)
  \/ \E k \in DOMAIN attempts : ThenHandler(k)
  \/ \E k \in DOMAIN attempts : CatchHandler(k)

SpecConn == InitConn /\ [][NextConn]_vars

Handles(S) == {Handle(k) : k \in S}
StartedBefore(i) == {j \in 1..(i - 1) : calls[j].started}

\* C1: single-flight. At most one connection attempt is in flight at any
\* time, and every connectDB call made while no handle is cached and the
\* connection string is set returns the promise of the attempt in flight
\* (starting one only when none is), so all callers of one attempt receive
\* that attempt's outcome: the same handle or the same failure.
C1_SingleFlight ==
  /\ Cardinality(InFlight) <= 1
  /\ \A i \in DOMAIN calls :
       LET c == calls[i] IN
       (c.fulfilled = {} /\ c.uri) =>
          /\ c.kind = "promise"
          /\ c.inflight # {} => (c.val \in c.inflight /\ ~c.started)
          /\ c.inflight = {} => (c.started /\ c.val \notin c.rejected)
          /\ c.result = ResultOf(attempts[c.val])
  /\ \A i, j \in DOMAIN calls :
       (calls[i].kind = "promise" /\ calls[j].kind = "promise"
          /\ calls[i].val = calls[j].val) => calls[i].result = calls[j].result

\* Two callers converged on one attempt and both received its handle
C1_Witness ==
  \E i, j \in DOMAIN calls :
     /\ i < j /\ calls[i].started /\ ~calls[j].started
     /\ calls[j].inflight = {calls[i].val} /\ calls[j].val = calls[i].val
     /\ calls[i].result.st = "ok" /\ calls[j].result = calls[i].result
     /\ Len(attempts) = 1

\* C2: once the handle is cached every later connectDB call returns that
\* same handle and starts no attempt, and over all calls, failures and
\* module re-evaluations at most one connection is ever established.
C2_CachedHandleReused ==
  /\ Cardinality(Connected) <= 1
  /\ \A k \in Fulfilled : caches[attempts[k].cache].conn = Handle(k)
  /\ (cached # NoCache /\ Fulfilled # {}) => caches[cached].conn \in Handles(Fulfilled)
  /\ \A i \in DOMAIN calls :
       LET c == calls[i] IN
       c.fulfilled # {} =>
          /\ c.kind = "conn" /\ c.val \in Handles(c.fulfilled)
          /\ ~c.started /\ c.after = c.before
          /\ c.result = [st |-> "ok", v |-> c.val]

\* After a failure, a success and a module re-evaluation, a call made with
\* the connection string absent still returns the cached handle
C2_Witness ==
  /\ evals = 2 /\ Rejected # {} /\ Cardinality(Connected) = 1
  /\ \E i \in DOMAIN calls :
       /\ calls[i].fulfilled # {} /\ ~calls[i].uri
       /\ calls[i].kind = "conn" /\ calls[i].val = caches[globalMongoose].conn

\* C3 (as amended): when an attempt fails, cached.promise is cleared,
\* cached.conn stays null, every caller awaiting the attempt receives its
\* failure, no attempt is ever started except by a connectDB call, and the
\* next connectDB call made after the failure with the connection string
\* set starts exactly one fresh attempt.
C3_FailureClearsAndRetries ==
  /\ \A k \in Rejected :
       /\ caches[attempts[k].cache].promise # k
       /\ \A i \in DOMAIN calls :
            (calls[i].kind = "promise" /\ calls[i].val = k)
               => calls[i].result = [st |-> "error", v |-> k]
  /\ \A ci \in DOMAIN caches :
       caches[ci].conn # NoConn => caches[ci].conn \in Handles(Fulfilled)
  /\ Len(attempts) = Cardinality({i \in DOMAIN calls : calls[i].started})
  /\ \A i \in DOMAIN calls :
       LET c == calls[i] IN
       (c.rejected # {} /\ c.inflight = {} /\ c.fulfilled = {} /\ c.uri) =>
          /\ c.started /\ c.kind = "promise"
          /\ c.val = Cardinality(StartedBefore(i)) + 1
          /\ c.after = [conn |-> NoConn, promise |-> c.val]

\* C3 as stated: the next connectDB call after a failure starts a fresh
\* attempt (whatever the configuration holds).
C3_Original ==
  \A i \in DOMAIN calls :
     LET c == calls[i] IN
     (c.rejected # {} /\ c.inflight = {} /\ c.fulfilled = {}) => c.started

\* Two callers shared a failed attempt, and the next call started a new one
C3_Witness ==
  \E i, j, n \in DOMAIN calls :
     /\ i < j /\ j < n
     /\ calls[i].started /\ calls[j].val = calls[i].val /\ ~calls[j].started
     /\ calls[i].result.st = "error" /\ calls[j].result = calls[i].result
     /\ calls[n].rejected = {calls[i].val} /\ calls[n].started
     /\ calls[n].val # calls[i].val

\* C9 (as amended): connectDB tests the cached handle, then the
\* configuration, then the in-flight attempt. The Configuration error is
\* raised exactly when no handle is cached and the connection string is
\* absent, whether or not an attempt is in flight; it starts no attempt and
\* leaves the cache unchanged. A call made while an attempt is in flight
\* returns that pending result only when the connection string is set.
C9_ConfigBeforePending ==
  \A i \in DOMAIN calls :
     LET c == calls[i] IN
     /\ (c.kind = "configError") <=> (c.fulfilled = {} /\ ~c.uri)
     /\ c.kind = "configError" =>
          (~c.started /\ c.after = c.before /\ c.result.st = "configError")
     /\ (c.fulfilled = {} /\ c.inflight # {} /\ c.uri) =>
          (c.kind = "promise" /\ c.val \in c.inflight)
     /\ c.fulfilled # {} => c.kind = "conn"

\* C9 as stated: the in-flight attempt is tested before the configuration.
C9_Original ==
  \A i \in DOMAIN calls :
     LET c == calls[i] IN
     /\ (c.fulfilled = {} /\ c.inflight # {}) => c.kind = "promise"
     /\ c.kind = "configError" =>
          (c.fulfilled = {} /\ c.inflight = {} /\ ~c.uri /\ ~c.started
             /\ c.after = c.before)

\* A call made while an attempt is in flight and the connection string is
\* absent raised the Configuration error
C9_Witness ==
  \E i \in DOMAIN calls :
     /\ calls[i].inflight # {} /\ ~calls[i].uri
     /\ calls[i].kind = "configError" /\ calls[i].after = calls[i].before
     /\ calls[i].after.promise \in calls[i].inflight

\* ========================================================================
\* Booking pre-save hook: src/database/booking.model.ts
\* ========================================================================
MaxEventIds == 2   \* event identities explored
MaxDocs     == 1   \* Booking documents explored

EventIds == 1..MaxEventIds
DocIds   == 1..MaxDocs

NoSave == [outcome |-> "none"]

\* The record of a save() that has just been called on document doc
NewSave(doc, stored) ==
  [outcome |-> "running", eventId |-> doc.eventId,
   wasNew |-> doc.isNew, wasModified |-> doc.modified,
   storedBefore |-> stored,
   checked |-> FALSE, existedAtLookup |-> FALSE,
   errId |-> NoEvent, existedAtCommit |-> FALSE]

\* new Booking({ eventId: e, ... }); e = NoEvent when eventId is not given
NewBooking(d, e) ==
  /\ bdocs[d].st = "none"
  /\ bdocs' = [bdocs EXCEPT ![d] =
        [st |-> "idle", eventId |-> e, isNew |-> TRUE, modified |-> (e # NoEvent),
         save |-> NoSave]]
  /\ UNCHANGED <<events, bookings>>
  /\ UNCHANGED <<connVars, eventVars, pureVars>>

\* booking.eventId = e on an in-memory document
SetEventId(d, e) ==
  /\ bdocs[d].st = "idle"
  /\ bdocs' = [bdocs EXCEPT ![d].eventId = e,
                             ![d].modified = @ \/ (e # bdocs[d].eventId)]
  /\ UNCHANGED <<events, bookings>>
  /\ UNCHANGED <<connVars, eventVars, pureVars>>

NeedsLookup_OnlyNew(doc) == doc.isNew

\* this.isModified('eventId') || this.isNew
NeedsLookup(doc) == doc.modified \/ doc.isNew

\* booking.save(): schema validation (eventId required), then the pre-save
\* hook up to its await
SaveStart(d) ==
  /\ bdocs[d].st = "idle"
  /\ LET doc == bdocs[d]
         sv  == NewSave(doc, bookings[d])
     IN  bdocs' = [bdocs EXCEPT ![d] =
           IF doc.eventId = NoEvent
             THEN [doc EXCEPT !.save = [sv EXCEPT !.outcome = "RequiredError"]]
           ELSE IF NeedsLookup(doc)
             THEN [doc EXCEPT !.st = "lookup", !.save = sv]
             ELSE [doc EXCEPT !.st = "write", !.save = sv]]
  /\ UNCHANGED <<events, bookings>>
  /\ UNCHANGED <<connVars, eventVars, pureVars>>

\* await Event.findById(this.eventId) returns; next(error) or next()
Lookup(d) ==
  /\ bdocs[d].st = "lookup"
  /\ LET doc         == bdocs[d]
         eventExists == doc.eventId \in events
         sv          == [doc.save EXCEPT !.checked = TRUE,
                                         !.existedAtLookup = eventExists]
     IN  bdocs' = [bdocs EXCEPT ![d] =
           IF ~eventExists
             THEN [doc EXCEPT !.st = "idle",
                              !.save = [sv EXCEPT !.outcome = "ValidationError",
                                                  !.errId = doc.eventId]]
             ELSE [doc EXCEPT !.st = "write", !.save = sv]]
  /\ UNCHANGED <<events, bookings>>
  /\ UNCHANGED <<connVars, eventVars, pureVars>>

\* await Event.findById(this.eventId) throws; catch: next(error)
LookupThrows(d) ==
  /\ bdocs[d].st = "lookup"
  /\ bdocs' = [bdocs EXCEPT ![d].st = "idle", ![d].save.outcome = "LookupError"]
  /\ UNCHANGED <<events, bookings>>
  /\ UNCHANGED <<connVars, eventVars, pureVars>>

\* The hook called next(): the document is written to the collection
Write(d) ==
  /\ bdocs[d].st = "write"
  /\ LET doc == bdocs[d]
     IN  /\ bookings' = [bookings EXCEPT ![d] = doc.eventId]
         /\ bdocs' = [bdocs EXCEPT ![d] =
               [doc EXCEPT !.st = "idle", !.isNew = FALSE, !.modified = FALSE,
                           !.save.outcome = "written",
                           !.save.existedAtCommit = (doc.eventId \in events)]]
  /\ UNCHANGED events
  /\ UNCHANGED <<connVars, eventVars, pureVars>>

\* An Event document is stored in the events collection
CreateEvent(e) ==
  /\ e \notin events
  /\ events' = events \cup {e}
  /\ UNCHANGED <<bookings, bdocs>>
  /\ UNCHANGED <<connVars, eventVars, pureVars>>

\* An Event document is removed from the events collection
DeleteEvent(e) ==
  /\ e \in events
  /\ events' = events \ {e}
  /\ UNCHANGED <<bookings, bdocs>>
  /\ UNCHANGED <<connVars, eventVars, pureVars>>

InitBooking ==
  /\ events = {}
  /\ bookings = [d \in DocIds |-> NoEvent]
  /\ bdocs = [d \in DocIds |-> [st |-> "none"]]
  /\ ConnIdle /\ EventIdle /\ PureIdle

NextBooking ==
  \/ \E d \in DocIds, e \in EventIds \cup {NoEvent} : NewBooking(d, e)
  \/ \E d \in DocIds, e \in EventIds : SetEventId(d, e)
  \/ \E d \in DocIds : SaveStart(d)
  \/ \E d \in DocIds : Lookup(d)
  \/ \E d \in DocIds : LookupThrows(d)
  \/ \E d \in DocIds : Write(d)
  \/ \E e \in EventIds : CreateEvent(e)
  \/ \E e \in EventIds : DeleteEvent(e)

SpecBooking == InitBooking /\ [][NextBooking]_vars

Saved(d) == bdocs[d].st # "none" /\ bdocs[d].save.outcome # "none"

\* C4: a save of a new Booking, or of one whose eventId was modified,
\* looks the event up before anything is written; when the lookup finds no
\* Event with that identity the save is rejected with a Validation error
\* naming that identity and the stored booking is left as it was.
C4_MissingEventRejected ==
  \A d \in DocIds : Saved(d) =>
     LET doc == bdocs[d]
         sv  == doc.save
     IN  /\ (doc.st = "write" /\ (sv.wasNew \/ sv.wasModified))
              => (sv.checked /\ sv.existedAtLookup)
         /\ (sv.outcome = "written" /\ (sv.wasNew \/ sv.wasModified))
              => (sv.checked /\ sv.existedAtLookup)
         /\ (sv.checked /\ ~sv.existedAtLookup) =>
              /\ sv.outcome = "ValidationError" /\ sv.errId = sv.eventId
              /\ doc.st = "idle" /\ bookings[d] = sv.storedBefore

\* A stored booking whose eventId was changed to a missing event was
\* rejected, and the collection still holds the earlier reference
C4_Witness ==
  \E d \in DocIds :
     /\ Saved(d) /\ bdocs[d].save.outcome = "ValidationError"
     /\ ~bdocs[d].save.wasNew /\ bdocs[d].save.wasModified
     /\ bdocs[d].save.errId = bdocs[d].eventId
     /\ bookings[d] # NoEvent /\ bookings[d] # bdocs[d].eventId

\* C5: no orphaned bookings. Whenever a Booking write commits, on create
\* and on every later re-save, the Event it references exists.
C5_NoOrphanAtCommit ==
  \A d \in DocIds :
     (Saved(d) /\ bdocs[d].save.outcome = "written") => bdocs[d].save.existedAtCommit

\* ========================================================================
\* Strings, as sequences of one-character strings
\* ========================================================================
UpperLetters == <<"A","B","C","D","E","F","G","H","I","J","K","L","M",
                  "N","O","P","Q","R","S","T","U","V","W","X","Y","Z">>
LowerLetters == <<"a","b","c","d","e","f","g","h","i","j","k","l","m",
                  "n","o","p","q","r","s","t","u","v","w","x","y","z">>
Digits       == <<"0","1","2","3","4","5","6","7","8","9">>

Range(f) == {f[i] : i \in DOMAIN f}
Strs(A, n) == UNION {[1..k -> A] : k \in 0..n}
SetMin(S) == CHOOSE x \in S : \A y \in S : x <= y
SetMax(S) == CHOOSE x \in S : \A y \in S : y <= x

IsUpper(c) == c \in Range(UpperLetters)
IsDigit(c) == c \in Range(Digits)
\* \s
IsSpace(c) == c \in {" ", "\t", "\n"}
\* \w
IsWord(c)  == c \in Range(UpperLetters) \cup Range(LowerLetters)
                    \cup Range(Digits) \cup {"_"}

ToLowerChar(c) ==
  IF IsUpper(c)
    THEN LowerLetters[CHOOSE i \in DOMAIN UpperLetters : UpperLetters[i] = c]
    ELSE c

\* String.prototype.toLowerCase
ToLowerCase(s) == [i \in 1..Len(s) |-> ToLowerChar(s[i])]

\* String.prototype.trim
Trim(s) ==
  LET keep == {i \in 1..Len(s) : ~IsSpace(s[i])}
  IN  IF keep = {} THEN <<>> ELSE SubSeq(s, SetMin(keep), SetMax(keep))

\* ========================================================================
\* generateSlug: src/database/index.ts
\* ========================================================================
MaxTitleLen == 3   \* length of the titles explored

KeptBySlug(c) == IsWord(c) \/ IsSpace(c) \/ c = "-"

\* .replace(/[^\w\s-]/g, '')
RemoveSpecial(s) == SelectSeq(s, KeptBySlug)

IsSeparator(c) == IsSpace(c) \/ c = "_" \/ c = "-"
NotDropped(c)  == c # ""

\* .replace(/[\s_-]+/g, '-')
CollapseSeparators(s) ==
  LET marked == [i \in 1..Len(s) |->
                   IF ~IsSeparator(s[i]) THEN s[i]
                   ELSE IF i > 1 /\ IsSeparator(s[i - 1]) THEN "" ELSE "-"]
  IN  SelectSeq(marked, NotDropped)

StripHyphens_LeadingOnly(s) ==
  LET keep == {i \in 1..Len(s) : s[i] # "-"}
  IN  IF keep = {} THEN <<>> ELSE SubSeq(s, SetMin(keep), Len(s))

\* .replace(/^-+|-+$/g, '')
StripHyphens(s) ==
  LET keep == {i \in 1..Len(s) : s[i] # "-"}
  IN  IF keep = {} THEN <<>> ELSE SubSeq(s, SetMin(keep), SetMax(keep))

GenerateSlug(title) ==
  StripHyphens(CollapseSeparators(RemoveSpecial(Trim(ToLowerCase(title)))))

SlugAlphabet == {"A", "b", "1", " ", "_", "-", "!"}

\* "Next.js Conf 2026!!"
ExampleTitle == <<"N","e","x","t",".","j","s"," ","C","o","n","f"," ",
                  "2","0","2","6","!","!">>
\* "nextjs-conf-2026"
ExampleSlug  == <<"n","e","x","t","j","s","-","c","o","n","f","-",
                  "2","0","2","6">>

SlugTitles == Strs(SlugAlphabet, MaxTitleLen) \cup {ExampleTitle}

InitSlug ==
  /\ \E t \in SlugTitles :
       slugRun = [pc |-> "input", title |-> t, once |-> <<>>, twice |-> <<>>]
  /\ timeRun = [pc |-> "idle"]
  /\ ConnIdle /\ BookIdle /\ EventIdle

\* slug = generateSlug(title)
SlugOnce ==
  /\ slugRun.pc = "input"
  /\ slugRun' = [slugRun EXCEPT !.pc = "once", !.once = GenerateSlug(slugRun.title)]
  /\ UNCHANGED timeRun
  /\ UNCHANGED <<connVars, bookVars, eventVars>>

\* generateSlug(slug)
SlugTwice ==
  /\ slugRun.pc = "once"
  /\ slugRun' = [slugRun EXCEPT !.pc = "twice", !.twice = GenerateSlug(slugRun.once)]
  /\ UNCHANGED timeRun
  /\ UNCHANGED <<connVars, bookVars, eventVars>>

NextSlug == SlugOnce \/ SlugTwice

SpecSlug == InitSlug /\ [][NextSlug]_vars

\* C8: for all titles the slug is lowercase, holds no whitespace and no
\* leading or trailing hyphen, and generating a slug from it again gives
\* the same slug; "Next.js Conf 2026!!" gives "nextjs-conf-2026".
C8_SlugIdempotentAndClean ==
  /\ slugRun.pc \in {"once", "twice"} =>
       LET g == slugRun.once IN
       /\ \A i \in 1..Len(g) : ~IsUpper(g[i]) /\ ~IsSpace(g[i])
       /\ g # <<>> => (g[1] # "-" /\ g[Len(g)] # "-")
       /\ slugRun.title = ExampleTitle => g = ExampleSlug
  /\ slugRun.pc = "twice" => slugRun.twice = slugRun.once

\* A title with an upper-case letter, whitespace and hyphens at both ends
C8_Witness ==
  /\ slugRun.pc = "twice"
  /\ slugRun.title = <<"-", "A", " ">>
  /\ slugRun.once = <<"a">> /\ slugRun.twice = <<"a">>

\* ========================================================================
\* normalizeTime: src/database/index.ts
\* ========================================================================
MaxHourLen == 2   \* digits of the hour part of the inputs explored

DigitVal(c) == (CHOOSE i \in DOMAIN Digits : Digits[i] = c) - 1

\* parseInt(s, 10) of a string of one or two digits
ParseInt(s) ==
  IF Len(s) = 1 THEN DigitVal(s[1]) ELSE 10 * DigitVal(s[1]) + DigitVal(s[2])

\* n.toString().padStart(2, '0'), for 0 <= n <= 99
PadStart2(n) == <<Digits[(n \div 10) + 1], Digits[(n % 10) + 1]>>

AllDigits(s) == \A i \in 1..Len(s) : IsDigit(s[i])
DropSpaces(s) ==
  LET keep == {i \in 1..Len(s) : ~IsSpace(s[i])}
  IN  IF keep = {} THEN <<>> ELSE SubSeq(s, SetMin(keep), Len(s))

NoMatch == [ok |-> FALSE, hours |-> 0, minutes |-> 0, period |-> "none"]

\* cleaned.match(/^(\d{1,2}):(\d{2})(?::\d{2})?(?:\s*(am|pm))?$/i)
TimeMatch(s) ==
  LET hl == IF Len(s) >= 2 /\ s[2] = ":" THEN 1 ELSE 2
  IN  IF ~( /\ Len(s) >= hl + 3
            /\ AllDigits(SubSeq(s, 1, hl))
            /\ s[hl + 1] = ":"
            /\ AllDigits(SubSeq(s, hl + 2, hl + 3)) )
        THEN NoMatch
        ELSE
          LET r    == SubSeq(s, hl + 4, Len(s))
              secs == /\ Len(r) >= 3 /\ r[1] = ":"
                      /\ AllDigits(SubSeq(r, 2, 3))
              r2   == IF secs THEN SubSeq(r, 4, Len(r)) ELSE r
              mark == ToLowerCase(DropSpaces(r2))
              m    == [ok |-> TRUE,
                       hours   |-> ParseInt(SubSeq(s, 1, hl)),
                       minutes |-> ParseInt(SubSeq(s, hl + 2, hl + 3)),
                       period  |-> "none"]
          IN  IF r2 = <<>> THEN m
              ELSE IF mark = <<"a", "m">> THEN [m EXCEPT !.period = "am"]
              ELSE IF mark = <<"p", "m">> THEN [m EXCEPT !.period = "pm"]
              ELSE NoMatch

ConvertHours_PmAlwaysAdds(hours, period) ==
  IF period = "pm" THEN hours + 12
  ELSE IF period = "am" /\ hours = 12 THEN 0
  ELSE hours

\* Handle 12-hour format
ConvertHours(hours, period) ==
  IF period = "pm" /\ hours # 12 THEN hours + 12
  ELSE IF period = "am" /\ hours = 12 THEN 0
  ELSE hours

NormalizeTime(timeStr) ==
  LET cleaned == ToLowerCase(Trim(timeStr))
      match   == TimeMatch(cleaned)
      hours   == ConvertHours(match.hours, match.period)
      minutes == match.minutes
  IN  IF match.ok /\ hours >= 0 /\ hours <= 23 /\ minutes >= 0 /\ minutes <= 59
        THEN PadStart2(hours) \o <<":">> \o PadStart2(minutes)
        ELSE timeStr

\* The inputs explored: pad hour sep minute secs gap marker pad
TimeDigits  == {"0", "1", "2", "3", "4", "5"}
HourParts   == Strs(TimeDigits, MaxHourLen)
SepParts    == {<<":">>, <<".">>}
MinuteParts == {<<"0","0">>, <<"3","0">>, <<"5","9">>, <<"6","0">>, <<"5">>,
                <<"0","0","0">>}
SecParts    == {<<>>, <<":","0","0">>, <<":","7">>}
GapParts    == {<<>>, <<" ">>}
MarkerParts == {<<>>, <<"a","m">>, <<"P","M">>, <<"x","m">>}
PadParts    == {<<>>, <<" ">>}

TimeParts ==
  [pad : PadParts, hour : HourParts, sep : SepParts, minute : MinuteParts,
   secs : SecParts, gap : GapParts, marker : MarkerParts]

TimeInput(p) ==
  p.pad \o p.hour \o p.sep \o p.minute \o p.secs \o p.gap \o p.marker \o p.pad

InitTime ==
  /\ \E p \in TimeParts :
       timeRun = [pc |-> "input", parts |-> p, input |-> TimeInput(p),
                  output |-> <<>>]
  /\ slugRun = [pc |-> "idle"]
  /\ ConnIdle /\ BookIdle /\ EventIdle

\* time = normalizeTime(timeStr)
ApplyNormalizeTime ==
  /\ timeRun.pc = "input"
  /\ timeRun' = [timeRun EXCEPT !.pc = "done",
                                 !.output = NormalizeTime(timeRun.input)]
  /\ UNCHANGED slugRun
  /\ UNCHANGED <<connVars, bookVars, eventVars>>

NextTime == ApplyNormalizeTime

SpecTime == InitTime /\ [][NextTime]_vars

\* The input is made of parts that fit the recognised pattern
PartsFit(p) ==
  /\ Len(p.hour) \in {1, 2} /\ p.sep = <<":">> /\ Len(p.minute) = 2
  /\ Len(p.secs) \in {0, 3}
  /\ p.marker \in {<<>>, <<"a","m">>, <<"P","M">>}

\* The hour the stated rule gives
RuleHours(p) ==
  LET h == ParseInt(p.hour) IN
  IF p.marker = <<"P","M">> THEN (IF h # 12 THEN h + 12 ELSE h)
  ELSE IF p.marker = <<"a","m">> THEN (IF h = 12 THEN 0 ELSE h)
  ELSE h

IsHHMM(s) ==
  /\ Len(s) = 5 /\ s[3] = ":"
  /\ AllDigits(SubSeq(s, 1, 2)) /\ AllDigits(SubSeq(s, 4, 5))
  /\ ParseInt(SubSeq(s, 1, 2)) <= 23 /\ ParseInt(SubSeq(s, 4, 5)) <= 59

\* C7: normalizeTime returns the zero-padded 24-hour HH:MM given by the
\* rule (pm and hour # 12: add 12; am and hour = 12: 0; no marker: hour
\* kept; seconds discarded) when the input fits the pattern and the
\* converted hour and the minute are in range, and the input unchanged
\* otherwise; "2:30 PM" gives "14:30", "14:30:00" gives "14:30" and
\* "25:00" gives "25:00".
C7_NormalizeTimeRule ==
  timeRun.pc = "done" =>
    LET p   == timeRun.parts
        inp == timeRun.input
        out == timeRun.output
    IN  /\ out = inp \/ IsHHMM(out)
        /\ IF PartsFit(p) /\ RuleHours(p) <= 23 /\ ParseInt(p.minute) <= 59
             THEN out = PadStart2(RuleHours(p)) \o <<":">>
                          \o PadStart2(ParseInt(p.minute))
             ELSE out = inp
        /\ inp = <<"2",":","3","0"," ","P","M">> => out = <<"1","4",":","3","0">>
        /\ inp = <<"1","4",":","3","0",":","0","0">> => out = <<"1","4",":","3","0">>
        /\ inp = <<"2","5",":","0","0">> => out = <<"2","5",":","0","0">>

\* " 12:30:00 PM " stays at noon
C7_Witness ==
  /\ timeRun.pc = "done"
  /\ timeRun.input = <<" ","1","2",":","3","0",":","0","0"," ","P","M"," ">>
  /\ timeRun.output = <<"1","2",":","3","0">>

\* ========================================================================
\* Event schema and pre-save hook: src/database/index.ts
\* ========================================================================
TitleMaxLength == 100
SlugMaxLength  == 100

\* validateRequiredFields.requiredFields, in order
RequiredFields == <<"title", "description", "overview", "image", "venue",
                    "location", "date", "time", "audience", "organizer">>
\* String paths of the schema (mode, agenda and tags always hold valid values)
StringPaths == Range(RequiredFields) \cup {"slug"}

IsIsoDate(s) ==
  /\ Len(s) = 10 /\ s[5] = "-" /\ s[8] = "-"
  /\ AllDigits(SubSeq(s, 1, 4)) /\ AllDigits(SubSeq(s, 6, 7))
  /\ AllDigits(SubSeq(s, 9, 10))
  /\ ParseInt(SubSeq(s, 6, 7)) \in 1..12 /\ ParseInt(SubSeq(s, 9, 10)) \in 1..28

IsIsoUtcDateTime(s) ==
  /\ Len(s) = 20 /\ IsIsoDate(SubSeq(s, 1, 10)) /\ s[11] = "T" /\ s[20] = "Z"
  /\ s[14] = ":" /\ s[17] = ":"
  /\ AllDigits(SubSeq(s, 12, 13)) /\ AllDigits(SubSeq(s, 15, 16))
  /\ AllDigits(SubSeq(s, 18, 19))
  /\ ParseInt(SubSeq(s, 12, 13)) <= 23 /\ ParseInt(SubSeq(s, 15, 16)) <= 59
  /\ ParseInt(SubSeq(s, 18, 19)) <= 59

\* new Date(dateStr) is a valid date. Only ISO dates and ISO UTC date-times
\* are taken as parseable: the inputs explored hold no other date format.
DateParses(s) == IsIsoDate(s) \/ IsIsoUtcDateTime(s)

\* date.toISOString().split('T')[0], or the input when parsing fails
NormalizeDate(dateStr) ==
  IF DateParses(dateStr) THEN SubSeq(dateStr, 1, 10) ELSE dateStr

\* Paths the built-in validation rejects (required, maxlength); it runs
\* before the pre-save hook
SchemaErrors(f) ==
  {p \in Range(RequiredFields) : f[p] = <<>>}
    \cup (IF Len(f["title"]) > TitleMaxLength THEN {"title"} ELSE {})
    \cup (IF Len(f["slug"]) > SlugMaxLength THEN {"slug"} ELSE {})

\* The first required field that trims to empty, or "none". The built-in
\* validation has rejected empty required paths before the hook runs, so
\* this finds one only if the hook's normalisation has emptied it.
ValidateRequiredFields(f) ==
  LET bad == {i \in DOMAIN RequiredFields : Trim(f[RequiredFields[i]]) = <<>>}
  IN  IF bad = {} THEN "none" ELSE RequiredFields[SetMin(bad)]

NeedsSlug_Always(doc) == TRUE

\* this.isModified('title') || !this.slug
NeedsSlug(doc) == "title" \in doc.modified \/ doc.f["slug"] = <<>>

\* The fields after the pre-save hook's normalisation
PreSaveFields(doc) ==
  [p \in StringPaths |->
     CASE p = "slug" /\ NeedsSlug(doc)          -> Trim(GenerateSlug(doc.f["title"]))
       [] p = "date" /\ "date" \in doc.modified -> Trim(NormalizeDate(doc.f["date"]))
       [] p = "time" /\ "time" \in doc.modified -> Trim(NormalizeTime(doc.f["time"]))
       [] OTHER                                 -> doc.f[p]]

\* Inputs explored
X == <<"x">>
EventTitleInputs == {<<>>, <<"!","!">>, <<"A","b">>, <<" ","a"," ","b">>}
EventSlugInputs  == {<<"z","z">>}
EventDateInputs  ==
  {<<"2","0","2","6","-","0","3","-","1","0","T","0","9",":","3","0",":","0","0","Z">>,
   <<"n","o","t","-","a","-","d","a","t","e">>}
EventTimeInputs  == {<<"2",":","3","0"," ","P","M">>}
EventVenueInputs == {<<" ">>, X}
OtherTitles      == {<<"!","!">>}

FieldInputs(p) ==
  CASE p = "title" -> EventTitleInputs
    [] p = "slug"  -> EventSlugInputs
    [] p = "date"  -> EventDateInputs
    [] p = "time"  -> EventTimeInputs
    [] p = "venue" -> EventVenueInputs
    [] OTHER       -> {X}

SettablePaths == {"title", "slug", "date", "time", "venue"}
TrackedPaths  == {"title", "date", "time"}

NoEventSave == [outcome |-> "none"]

\* new Event({ title, date, time, venue, ... }): every setter trims
NewEvent(title, date, time, venue) ==
  /\ edoc.st = "none"
  /\ edoc' =
       [st |-> "idle", isNew |-> TRUE,
        f |-> [p \in StringPaths |->
                 CASE p = "title" -> Trim(title)
                   [] p = "date"  -> Trim(date)
                   [] p = "time"  -> Trim(time)
                   [] p = "venue" -> Trim(venue)
                   [] p = "slug"  -> <<>>
                   [] OTHER       -> X],
        modified |-> TrackedPaths,
        save |-> NoEventSave]
  /\ UNCHANGED estore
  /\ UNCHANGED <<connVars, bookVars, pureVars>>

\* event[p] = v on the in-memory document (trim setter; a changed value
\* marks the path modified)
SetField(p, v) ==
  /\ edoc.st = "idle"
  /\ edoc' = [edoc EXCEPT
        !.f[p] = Trim(v),
        !.modified = IF Trim(v) # edoc.f[p] THEN @ \cup ({p} \cap TrackedPaths)
                                              ELSE @]
  /\ UNCHANGED estore
  /\ UNCHANGED <<connVars, bookVars, pureVars>>

\* event.save(): built-in validation, then the pre-save hook
EventSave ==
  /\ edoc.st = "idle"
  /\ LET sv   == [outcome |-> "running", path |-> "none", hooked |-> FALSE,
                   titleModified |-> "title" \in edoc.modified,
                   slugBefore |-> edoc.f["slug"], slugAfter |-> edoc.f["slug"]]
         errs == SchemaErrors(edoc.f)
         f2   == PreSaveFields(edoc)
         bad  == ValidateRequiredFields(f2)
         sv2  == [sv EXCEPT !.hooked = TRUE, !.slugAfter = f2["slug"]]
     IN  edoc' =
           IF errs # {}
             THEN [edoc EXCEPT !.save = [sv EXCEPT !.outcome = "ValidationError",
                                                   !.path = CHOOSE p \in errs : TRUE]]
           ELSE IF bad # "none"
             THEN [edoc EXCEPT !.f = f2,
                               !.save = [sv2 EXCEPT !.outcome = "ValidationError",
                                                    !.path = bad]]
             ELSE [edoc EXCEPT !.f = f2, !.st = "write", !.save = sv2]
  /\ UNCHANGED estore
  /\ UNCHANGED <<connVars, bookVars, pureVars>>

\* The hook called next(): the document is written, unless the unique index
\* on slug already holds its slug for another event
EventWrite ==
  /\ edoc.st = "write"
  /\ IF edoc.f["slug"] \in estore.others
       THEN /\ edoc' = [edoc EXCEPT !.st = "idle", !.save.outcome = "DuplicateKey",
                                     !.save.path = "slug"]
            /\ UNCHANGED estore
       ELSE /\ edoc' = [edoc EXCEPT !.st = "idle", !.isNew = FALSE,
                                     !.modified = {}, !.save.outcome = "written"]
            /\ estore' = [estore EXCEPT !.mine = edoc.f]
  /\ UNCHANGED <<connVars, bookVars, pureVars>>

\* Another event, valid but for its title t, is created and saved
OtherEventSaved(t) ==
  /\ LET other == [isNew |-> TRUE, modified |-> TrackedPaths,
                    f |-> [p \in StringPaths |->
                             CASE p = "title" -> Trim(t)
                               [] p = "slug"  -> <<>>
                               [] p = "date"  -> <<"2","0","2","6","-","0","3","-","1","0">>
                               [] p = "time"  -> <<"0","9",":","0","0">>
                               [] OTHER       -> X]]
         f2    == PreSaveFields(other)
         taken == estore.others
                    \cup (IF estore.mine = <<>> THEN {} ELSE {estore.mine["slug"]})
     IN  /\ SchemaErrors(other.f) = {}
         /\ ValidateRequiredFields(f2) = "none"
         /\ f2["slug"] \notin taken
         /\ estore' = [estore EXCEPT !.others = @ \cup {f2["slug"]}]
  /\ UNCHANGED edoc
  /\ UNCHANGED <<connVars, bookVars, pureVars>>

InitEvent ==
  /\ edoc = [st |-> "none"]
  /\ estore = [mine |-> <<>>, others |-> {}]
  /\ ConnIdle /\ BookIdle /\ PureIdle

NextEvent ==
  \/ \E t \in EventTitleInputs, d \in EventDateInputs, tm \in EventTimeInputs,
        v \in EventVenueInputs : NewEvent(t, d, tm, v)
  \/ \E p \in SettablePaths : \E v \in FieldInputs(p) : SetField(p, v)
  \/ EventSave
  \/ EventWrite
  \/ \E t \in OtherTitles : OtherEventSaved(t)

SpecEvent == InitEvent /\ [][NextEvent]_vars

HookRan == edoc.st # "none" /\ edoc.save.outcome # "none" /\ edoc.save.hooked

\* C6: a save of an Event whose title was not modified and whose slug is
\* not empty leaves the slug as it was, in the document and in what is
\* stored: the hook rewrites the slug only when the title is modified or
\* the slug is absent or empty.
C6_SlugKeptWhenTitleUnmodified ==
  HookRan =>
    LET sv == edoc.save IN
    /\ (~sv.titleModified /\ sv.slugBefore # <<>>) =>
         /\ sv.slugAfter = sv.slugBefore
         /\ sv.outcome = "written" => estore.mine["slug"] = sv.slugBefore
    /\ sv.slugAfter # sv.slugBefore => (sv.titleModified \/ sv.slugBefore = <<>>)

\* A stored event whose slug was set by hand was saved again, title
\* untouched, and keeps a slug that generateSlug would not give its title
C6_Witness ==
  /\ HookRan /\ edoc.save.outcome = "written"
  /\ ~edoc.save.titleModified
  /\ edoc.save.slugBefore = <<"z","z">>
  /\ estore.mine["slug"] = <<"z","z">> /\ estore.mine["title"] = <<"A","b">>

\* C10: a save in which slug generation collapses a non-empty title to the
\* empty string is rejected, so no Event is ever stored with an empty slug.
C10_NoEmptySlugStored ==
  /\ (HookRan /\ edoc.save.slugAfter = <<>>) => edoc.save.outcome # "written"
  /\ estore.mine # <<>> => estore.mine["slug"] # <<>>

====
